---- MODULE Spec2Model ----
(***************************************************************************)
(* Pixel-transform core of generated-resource-packs-rs:                    *)
(*   - k_means.rs : dist_sq, calculate_centroid, closest, k_means          *)
(*   - main.rs    : rgb_to_hsv, hsv_to_rgb, the "8bit" posterize filter    *)
(* Colors are tuples <<r, g, b>> of 0..255; Rust's 0-based indices are     *)
(* 1-based here.                                                           *)
(***************************************************************************)
EXTENDS Integers, Sequences, FiniteSets, TLC

VARIABLES
    \* ---- k_means(k, points) ----
    pc,             \* position in k_means: start, assign, update, done, panic
    k,              \* argument k
    points,         \* argument points
    centroids,      \* let mut centroids
    clusters,       \* let mut clusters (k buckets)
    new_centroids,  \* let mut new_centroids
    idx,            \* position of `for cluster in clusters`
    outcome,        \* how the call ended: none, palette, panic
    emptySeen,      \* history: calculate_centroid has been given an empty bucket
    visited,        \* history: centroid sequences replaced so far (while ~emptySeen)
    \* ---- closest(p1, points) ----
    c_pc, c_p1, c_points, c_ret,
    \* ---- rgb_to_hsv / hsv_to_rgb ----
    h_pc, h_rgb, h_hsv, h_out,
    \* ---- the "8bit" filter ----
    f_width, f_height, f_orig, f_image, f_once, f_passes

kmVars == <<pc, k, points, centroids, clusters, new_centroids, idx, outcome,
            emptySeen, visited>>
clVars == <<c_pc, c_p1, c_points, c_ret>>
hsvVars == <<h_pc, h_rgb, h_hsv, h_out>>
fVars == <<f_width, f_height, f_orig, f_image, f_once, f_passes>>
vars == <<kmVars, clVars, hsvVars, fVars>>

----------------------------------------------------------------------------
(* Bounds of the model *)
MaxK == 2
\* populations: every sequence of up to MaxPoints colors, and every
\* non-decreasing sequence of up to MaxSortedPoints colors
MaxPoints == 3
MaxSortedPoints == 6
MaxPalette == 3
MaxPixels == 2
MaxPasses == 2

\* colors the population is drawn from
PointColors == {<<0, 0, 1>>, <<0, 1, 1>>, <<1, 1, 1>>, <<1, 2, 1>>, <<2, 0, 0>>}
\* colors rand_point() is allowed to draw
RandColors == {<<0, 0, 0>>, <<1, 1, 1>>}

RECURSIVE SeqsUpTo(_, _)
SeqsUpTo(S, n) ==
    IF n = 0 THEN {<<>>}
    ELSE LET shorter == SeqsUpTo(S, n - 1)
         IN  shorter \cup {Append(s, x) : s \in {t \in shorter : Len(t) = n - 1}, x \in S}

ColorRank(c) == c[1] * 65536 + c[2] * 256 + c[3]

RECURSIVE SortedSeqsUpTo(_, _)
SortedSeqsUpTo(S, n) ==
    IF n = 0 THEN {<<>>}
    ELSE LET shorter == SortedSeqsUpTo(S, n - 1)
             longest == {t \in shorter : Len(t) = n - 1}
             grown == UNION { { Append(s, x) :
                                  x \in {y \in S : s = <<>> \/ ColorRank(s[Len(s)]) <= ColorRank(y)} }
                              : s \in longest }
         IN  shorter \cup grown

Populations ==
    SeqsUpTo(PointColors, MaxPoints) \cup SortedSeqsUpTo(PointColors, MaxSortedPoints)

----------------------------------------------------------------------------
(* k_means.rs *)

dist_sq(p1, p2) ==
    (p1[1] - p2[1]) * (p1[1] - p2[1])
    + (p1[2] - p2[2]) * (p1[2] - p2[2])
    + (p1[3] - p2[3]) * (p1[3] - p2[3])

RECURSIVE SumChannel(_, _, _)
\* the accumulation loop of calculate_centroid for one channel (u32; the
\* populations of this model keep the sum far below 2^32)
SumChannel(pts, ch, i) ==
    IF i > Len(pts) THEN 0 ELSE pts[i][ch] + SumChannel(pts, ch, i + 1)

\* variant: the mean rounded up instead of truncated
MeanRoundedUp(pts, ch) == ((SumChannel(pts, ch, 1) + Len(pts) - 1) \div Len(pts)) % 256
\* (sum / len) as u8
MeanChannel(pts, ch) == (SumChannel(pts, ch, 1) \div Len(pts)) % 256

\* variant: the coin consulted before the emptiness test
CentroidCoinFirst(pts, coin, rnd) ==
    IF ~coin THEN <<>>
    ELSE IF pts = <<>> THEN <<rnd>>
    ELSE <<(<<SumChannel(pts, 1, 1) \div Len(pts), SumChannel(pts, 2, 1) \div Len(pts),
              SumChannel(pts, 3, 1) \div Len(pts)>>)>>
\* Option<Point> as a sequence of length 0 (None) or 1 (Some); coin is the
\* outcome of random_bool(0.25) and rnd that of rand_point()
calculate_centroid(pts, coin, rnd) ==
    IF pts = <<>>
    THEN IF coin THEN <<rnd>> ELSE <<>>
    ELSE <<(<<MeanChannel(pts, 1), MeanChannel(pts, 2), MeanChannel(pts, 3)>>)>>

\* variant: <= in place of <, the last of equal distances wins
NearerOrEqual(d, min_dist) == d <= min_dist
\* if d < min_dist
Nearer(d, min_dist) == d < min_dist

RECURSIVE ScanCentroids(_, _, _, _, _)
\* for (j, centroid) in centroids.iter().enumerate().skip(1)
ScanCentroids(point, cs, j, min_dist, closest_index) ==
    IF j > Len(cs) THEN closest_index
    ELSE LET d == dist_sq(point, cs[j])
         IN  IF Nearer(d, min_dist)
             THEN ScanCentroids(point, cs, j + 1, d, j)
             ELSE ScanCentroids(point, cs, j + 1, min_dist, closest_index)

\* closest_index after the inner loop; needs cs # <<>> (centroids[0])
ClosestIndex(point, cs) == ScanCentroids(point, cs, 2, dist_sq(point, cs[1]), 1)

RECURSIVE AssignPoints(_, _, _, _)
\* for point in points { ...; clusters[closest_index].push(*point) }
AssignPoints(pts, cs, cl, i) ==
    IF i > Len(pts) THEN cl
    ELSE LET ci == ClosestIndex(pts[i], cs)
         IN  AssignPoints(pts, cs, [cl EXCEPT ![ci] = Append(@, pts[i])], i + 1)

\* variant: centroids[0] read before the loop over the points
AssignPanicsEager(pts, cs, kk) ==
    \/ cs = <<>>
    \/ \E i \in 1..Len(pts) : ScanCentroids(pts[i], cs, 2, dist_sq(pts[i], cs[1]), 1) > kk
\* an index out of bounds in the assignment loop: centroids[0] on an empty
\* centroid sequence, or clusters[closest_index] past the k buckets
AssignPanics(pts, cs, kk) ==
    /\ pts # <<>>
    /\ \/ cs = <<>>
       \/ \E i \in 1..Len(pts) : ClosestIndex(pts[i], cs) > kk

KmInit ==
    /\ pc = "start"
    /\ k \in 0..MaxK
    /\ points \in Populations
    /\ centroids = <<>>
    /\ clusters = <<>>
    /\ new_centroids = <<>>
    /\ idx = 1
    /\ outcome = "none"
    /\ emptySeen = FALSE
    /\ visited = {}

\* let mut centroids = (0..k).map(|_| rand_point()).collect()
Start ==
    /\ pc = "start"
    /\ centroids' \in [1..k -> RandColors]
    /\ pc' = "assign"
    /\ UNCHANGED <<k, points, clusters, new_centroids, idx, outcome, emptySeen, visited, clVars, hsvVars, fVars>>

AssignPanic ==
    /\ pc = "assign"
    /\ AssignPanics(points, centroids, k)
    /\ pc' = "panic"
    /\ outcome' = "panic"
    /\ UNCHANGED <<k, points, centroids, clusters, new_centroids, idx, emptySeen, visited,
                   clVars, hsvVars, fVars>>

Assign ==
    /\ pc = "assign"
    /\ ~AssignPanics(points, centroids, k)
    /\ clusters' = AssignPoints(points, centroids, [i \in 1..k |-> <<>>], 1)
    /\ new_centroids' = <<>>
    /\ idx' = 1
    /\ pc' = "update"
    /\ UNCHANGED <<k, points, centroids, outcome, emptySeen, visited, clVars, hsvVars, fVars>>

\* one turn of `for cluster in clusters`
UpdateBucket ==
    /\ pc = "update"
    /\ idx <= k
    /\ \E coin \in BOOLEAN, rnd \in RandColors :
           new_centroids' = new_centroids \o calculate_centroid(clusters[idx], coin, rnd)
    /\ idx' = idx + 1
    /\ emptySeen' = (emptySeen \/ clusters[idx] = <<>>)
    /\ visited' = IF emptySeen' THEN {} ELSE visited
    /\ UNCHANGED <<pc, k, points, centroids, clusters, outcome, clVars, hsvVars, fVars>>

\* variant: only the lengths compared
SameLength(new, old) == Len(new) = Len(old)
\* new_centroids == centroids on Vec<Rgb<u8>>
SameCentroids(new, old) == new = old

\* if new_centroids == centroids { converged = true }; return centroids
Converge ==
    /\ pc = "update"
    /\ idx > k
    /\ SameCentroids(new_centroids, centroids)
    /\ pc' = "done"
    /\ outcome' = "palette"
    /\ UNCHANGED <<k, points, centroids, clusters, new_centroids, idx, emptySeen, visited,
                   clVars, hsvVars, fVars>>

\* else { centroids = new_centroids }
Replace ==
    /\ pc = "update"
    /\ idx > k
    /\ ~SameCentroids(new_centroids, centroids)
    /\ centroids' = new_centroids
    /\ visited' = IF emptySeen THEN {} ELSE visited \cup {centroids}
    /\ pc' = "assign"
    /\ UNCHANGED <<k, points, clusters, new_centroids, idx, outcome, emptySeen,
                   clVars, hsvVars, fVars>>

KmIdle ==
    /\ pc = "idle" /\ k = 0 /\ points = <<>> /\ centroids = <<>> /\ clusters = <<>>
    /\ new_centroids = <<>> /\ idx = 1 /\ outcome = "none"
    /\ emptySeen = FALSE /\ visited = {}

----------------------------------------------------------------------------
(* closest(p1, points), k_means.rs *)

\* let mut min_dist = 100000.;
SentinelDist == 100000

\* points and palette entries closest is called with
ClosestColors == {<<0, 0, 0>>, <<10, 0, 0>>, <<200, 200, 200>>, <<255, 255, 255>>}

\* if d < min_dist
Closer(d, min_dist) == d < min_dist

RECURSIVE ScanPalette(_, _, _, _, _)
\* for (i, p2) in points.iter().enumerate()
ScanPalette(p1, pts, i, min_dist, min_i) ==
    IF i > Len(pts) THEN min_i
    ELSE LET d == dist_sq(p1, pts[i])
         IN  IF Closer(d, min_dist)
             THEN ScanPalette(p1, pts, i + 1, d, i)
             ELSE ScanPalette(p1, pts, i + 1, min_dist, min_i)

\* min_i after the loop
closest_min_i(p1, pts) == ScanPalette(p1, pts, 1, SentinelDist, 1)

ClInit ==
    /\ c_pc = "call"
    /\ c_p1 \in ClosestColors
    /\ c_points \in SeqsUpTo(ClosestColors, MaxPalette)
    /\ c_ret = <<>>

\* points[min_i]
Closest ==
    /\ c_pc = "call"
    /\ closest_min_i(c_p1, c_points) <= Len(c_points)
    /\ c_ret' = <<c_points[closest_min_i(c_p1, c_points)]>>
    /\ c_pc' = "done"
    /\ UNCHANGED <<c_p1, c_points, kmVars, hsvVars, fVars>>

\* points[min_i] out of bounds: the palette is empty
ClosestPanic ==
    /\ c_pc = "call"
    /\ closest_min_i(c_p1, c_points) > Len(c_points)
    /\ c_pc' = "panic"
    /\ UNCHANGED <<c_p1, c_points, c_ret, kmVars, hsvVars, fVars>>

ClIdle == c_pc = "idle" /\ c_p1 = <<0, 0, 0>> /\ c_points = <<>> /\ c_ret = <<>>

----------------------------------------------------------------------------
(* the "8bit" filter, main.rs *)

\* pixels <<r, g, b, a>> the images are drawn from
PixelSamples ==
    { <<0, 0, 0, 0>>, <<31, 32, 63, 255>>, <<33, 64, 64, 0>>, <<255, 255, 255, 255>>,
      <<100, 200, 127, 128>>, <<32, 31, 128, 255>>, <<95, 96, 191, 0>>, <<224, 223, 192, 1>> }

\* variants: rounding to the nearest multiple; the multiplication left out
RoundToStep(c, step) == (((c + step \div 2) \div step) * step) % 256
DivideByStep(c, step) == c \div step
\* (px[i] / step) * step on u8
TruncateToStep(c, step) == (c \div step) * step

\* the body of the pixel loop: px[0], px[1] by 32, px[2] by 64, px[3] untouched
posterize_pixel(px) ==
    <<TruncateToStep(px[1], 32), TruncateToStep(px[2], 32), TruncateToStep(px[3], 64), px[4]>>

\* the closure of the "8bit" pack: every (x, y) of the image, row-major
posterize(image) == [i \in 1..Len(image) |-> posterize_pixel(image[i])]

FInit ==
    /\ f_width \in 1..MaxPixels
    /\ f_height \in 1..MaxPixels
    /\ f_width * f_height <= MaxPixels
    /\ f_orig \in [1..(f_width * f_height) -> PixelSamples]
    /\ f_image = f_orig
    /\ f_once = <<>>
    /\ f_passes = 0

Posterize ==
    /\ f_passes < MaxPasses
    /\ f_width > 0
    /\ f_image' = posterize(f_image)
    /\ f_once' = IF f_passes = 0 THEN f_image' ELSE f_once
    /\ f_passes' = f_passes + 1
    /\ UNCHANGED <<f_width, f_height, f_orig, kmVars, clVars, hsvVars>>

FIdle ==
    /\ f_width = 0 /\ f_height = 0 /\ f_orig = <<>> /\ f_image = <<>>
    /\ f_once = <<>> /\ f_passes = 0

----------------------------------------------------------------------------
(* rgb_to_hsv and hsv_to_rgb, main.rs.  The f32 values are modelled as    *)
(* exact rationals [n, d] in lowest terms with d > 0: the operations keep  *)
(* their Rust meaning (% is the truncated remainder with the sign of the   *)
(* dividend, `as u8` truncates toward zero and saturates), rounding of the *)
(* last binary digit is left out.                                          *)

Abs(x) == IF x < 0 THEN -x ELSE x

RECURSIVE GCD(_, _)
GCD(a, b) == IF b = 0 THEN a ELSE GCD(b, a % b)

Rat(n, d) ==
    LET g == GCD(Abs(n), Abs(d))
        sgn == IF d < 0 THEN -1 ELSE 1
    IN  [n |-> sgn * (n \div g), d |-> sgn * (d \div g)]

RInt(i) == [n |-> i, d |-> 1]
RNeg(a) == [n |-> -a.n, d |-> a.d]
RAdd(a, b) ==
    LET g == GCD(a.d, b.d)
    IN  Rat(a.n * (b.d \div g) + b.n * (a.d \div g), (a.d \div g) * b.d)
RSub(a, b) == RAdd(a, RNeg(b))
RMul(a, b) ==
    LET x == Rat(a.n, b.d)
        y == Rat(b.n, a.d)
    IN  [n |-> x.n * y.n, d |-> x.d * y.d]
RDiv(a, b) == RMul(a, Rat(b.d, b.n))
RLt(a, b) == a.n * b.d < b.n * a.d
RLe(a, b) == a.n * b.d <= b.n * a.d
RAbs(a) == [n |-> Abs(a.n), d |-> a.d]
RMax(a, b) == IF RLt(a, b) THEN b ELSE a
RMin(a, b) == IF RLt(b, a) THEN b ELSE a
\* the integer part, toward zero
RTrunc(a) == IF a.n < 0 THEN -((-a.n) \div a.d) ELSE a.n \div a.d

\* a % m on f32: a - m * trunc(a / m), the sign of a
RemF(a, m) == RSub(a, RMul(m, RInt(RTrunc(RDiv(a, m)))))

\* x as u8 on f32
AsU8(a) ==
    LET t == RTrunc(a)
    IN  IF t < 0 THEN 0 ELSE IF t > 255 THEN 255 ELSE t

rgb_to_hsv(rgb) ==
    LET rp == Rat(rgb[1], 255)
        gp == Rat(rgb[2], 255)
        bp == Rat(rgb[3], 255)
        c_max == RMax(RMax(rp, gp), bp)
        c_min == RMin(RMin(rp, gp), bp)
        delta == RSub(c_max, c_min)
        h == IF delta = RInt(0) THEN RInt(0)
             ELSE IF c_max = rp
                  THEN RMul(RInt(60), RemF(RDiv(RSub(gp, bp), delta), RInt(6)))
             ELSE IF c_max = gp
                  THEN RMul(RInt(60), RAdd(RDiv(RSub(bp, rp), delta), RInt(2)))
             ELSE RMul(RInt(60), RAdd(RDiv(RSub(rp, gp), delta), RInt(4)))
        s == IF c_max = RInt(0) THEN RInt(0) ELSE RDiv(delta, c_max)
        v == c_max
    IN  <<h, s, v>>

is_between(value, min, max) == RLe(min, value) /\ RLt(value, max)

hsv_to_rgb(hsv) ==
    LET s == hsv[2]
        v == hsv[3]
        c == RMul(v, s)
        h == RDiv(hsv[1], RInt(60))
        x == RMul(c, RSub(RInt(1), RAbs(RSub(RemF(h, RInt(2)), RInt(1)))))
        m == RSub(v, c)
        z == RInt(0)
        rgb == IF is_between(h, RInt(0), RInt(1)) THEN <<c, x, z>>
               ELSE IF is_between(h, RInt(1), RInt(2)) THEN <<x, c, z>>
               ELSE IF is_between(h, RInt(2), RInt(3)) THEN <<z, c, x>>
               ELSE IF is_between(h, RInt(3), RInt(4)) THEN <<z, x, c>>
               ELSE IF is_between(h, RInt(4), RInt(5)) THEN <<x, z, c>>
               ELSE <<c, z, x>>
    IN  << AsU8(RMul(RAdd(rgb[1], m), RInt(255))),
           AsU8(RMul(RAdd(rgb[2], m), RInt(255))),
           AsU8(RMul(RAdd(rgb[3], m), RInt(255))) >>

\* channel values the conversions are run on
ChannelSamples == {0, 1, 64, 127, 128, 200, 254, 255}

HInit ==
    /\ h_pc = "rgb"
    /\ h_rgb \in ChannelSamples \X ChannelSamples \X ChannelSamples
    /\ h_hsv = <<>>
    /\ h_out = <<>>

\* let mut hsv = rgb_to_hsv(&[px[0], px[1], px[2]])
RgbToHsv ==
    /\ h_pc = "rgb"
    /\ h_hsv' = rgb_to_hsv(h_rgb)
    /\ h_pc' = "hsv"
    /\ UNCHANGED <<h_rgb, h_out, kmVars, clVars, fVars>>

\* hsv_to_rgb(hsv)
HsvToRgb ==
    /\ h_pc = "hsv"
    /\ h_out' = hsv_to_rgb(h_hsv)
    /\ h_pc' = "back"
    /\ UNCHANGED <<h_rgb, h_hsv, kmVars, clVars, fVars>>

HsvIdle == h_pc = "idle" /\ h_rgb = <<0, 0, 0>> /\ h_hsv = <<>> /\ h_out = <<>>

----------------------------------------------------------------------------
Init == KmInit /\ ClIdle /\ HsvIdle /\ FIdle
Next == Start \/ AssignPanic \/ Assign \/ UpdateBucket \/ Converge \/ Replace
Spec == Init /\ [][Next]_vars

\* random_bool(0.25) returning false (None) for bucket i when the buckets
\* before it in this iteration were dropped too; e tells whether the current
\* centroid sequence is empty
DropAt(i, e) ==
    /\ UpdateBucket
    /\ idx = i
    /\ clusters[idx] = <<>>
    /\ new_centroids = <<>>
    /\ (centroids = <<>>) = e
    /\ new_centroids' = <<>>

\* the loop keeps running, and the draws of random_bool are independent: a
\* drop that is possible again and again is eventually drawn
Fairness ==
    /\ WF_vars(Next)
    /\ \A i \in 1..MaxK : \A e \in BOOLEAN : SF_vars(DropAt(i, e))

\* the populations of the fair runs: the empty one and the single points
FairInit == Init /\ points \in SeqsUpTo(PointColors, 1)
FairSpec == FairInit /\ [][Next]_vars /\ Fairness

ClosestInit == ClInit /\ KmIdle /\ HsvIdle /\ FIdle
ClosestNext == Closest \/ ClosestPanic
SpecClosest == ClosestInit /\ [][ClosestNext]_vars

PosterizeInit == FInit /\ KmIdle /\ ClIdle /\ HsvIdle
PosterizeNext == Posterize
SpecPosterize == PosterizeInit /\ [][PosterizeNext]_vars

HsvInit == HInit /\ KmIdle /\ ClIdle /\ FIdle
HsvNext == RgbToHsv \/ HsvToRgb
SpecHsv == HsvInit /\ [][HsvNext]_vars

----------------------------------------------------------------------------
(* Properties *)

\* C1: for every point p and every non-empty palette, closest(p, palette)
\* returns the palette entry at the smallest index among those at minimum
\* squared distance from p.
C1_ClosestReturnsFirstMinimum ==
    c_pc = "done" =>
        \E i \in 1..Len(c_points) :
            /\ c_ret = <<c_points[i]>>
            /\ \A j \in 1..Len(c_points) :
                   /\ dist_sq(c_p1, c_points[i]) <= dist_sq(c_p1, c_points[j])
                   /\ j < i => dist_sq(c_p1, c_points[i]) < dist_sq(c_p1, c_points[j])

\* C2: k_means with k = 0 ends as an InvalidArgument error for every
\* population: it returns no palette and does not crash.
C2_ZeroKIsInvalidArgument ==
    (k = 0 /\ pc \in {"done", "panic"}) => outcome = "InvalidArgument"

\* C3: for k >= 1 and a non-empty population the centroid sequence always has
\* between 1 and k entries, no index of the assignment loop is out of bounds
\* (k_means never panics), and the returned palette has 1..k entries.
C3_CentroidsBetweenOneAndK ==
    (k >= 1 /\ points # <<>> /\ pc \in {"assign", "update", "done", "panic"}) =>
        /\ pc # "panic"
        /\ outcome # "panic"
        /\ Len(centroids) >= 1
        /\ Len(centroids) <= k
        /\ pc = "assign" => ~AssignPanics(points, centroids, k)
        /\ pc = "done" => outcome = "palette"

\* a palette shorter than k has been returned for a non-empty population
C3_Witness ==
    /\ pc = "done" /\ k >= 2 /\ points # <<>>
    /\ Len(centroids) < k

\* C4: in a run where no bucket is ever empty the centroid sequence never
\* comes back to a value it was replaced from: the loop does not cycle
\* through distinct centroid sets, so it ends after finitely many iterations.
C4_NoCycleWithoutEmptyBucket ==
    (pc = "assign" /\ ~emptySeen) => centroids \notin visited

Count(seq, c) == Cardinality({i \in 1..Len(seq) : seq[i] = c})

RECURSIVE CountInBuckets(_, _, _)
CountInBuckets(cl, c, i) ==
    IF i > Len(cl) THEN 0 ELSE Count(cl[i], c) + CountInBuckets(cl, c, i + 1)

\* C9: the freshly built buckets partition the population: every point, with
\* multiplicity, is in exactly one bucket, the bucket of the smallest index
\* among the centroids at minimum squared distance, and the buckets at or
\* beyond the number of centroids are empty.
C9_BucketsPartitionPopulation ==
    (pc = "update" /\ centroids # <<>>) =>
        /\ Len(clusters) = k
        /\ \A c \in PointColors : Count(points, c) = CountInBuckets(clusters, c, 1)
        /\ \A i \in 1..k : \A j \in 1..Len(clusters[i]) :
               LET p == clusters[i][j]
               IN  /\ i <= Len(centroids)
                   /\ \A m \in 1..Len(centroids) :
                          /\ dist_sq(p, centroids[i]) <= dist_sq(p, centroids[m])
                          /\ m < i => dist_sq(p, centroids[i]) < dist_sq(p, centroids[m])
        /\ \A i \in 1..k : i > Len(centroids) => clusters[i] = <<>>

\* a point at the same distance from two different centroids has been placed
C9_Witness ==
    /\ pc = "update"
    /\ \E i \in 1..Len(centroids), m \in 1..Len(centroids) :
           /\ i < m
           /\ centroids[i] # centroids[m]
           /\ \E j \in 1..Len(clusters[i]) :
                  dist_sq(clusters[i][j], centroids[i]) = dist_sq(clusters[i][j], centroids[m])

IsColor(c) == c \in (0..255) \X (0..255) \X (0..255)

IsTruncatedMean(c, pts) ==
    \A ch \in 1..3 :
        /\ c[ch] * Len(pts) <= SumChannel(pts, ch, 1)
        /\ SumChannel(pts, ch, 1) < (c[ch] + 1) * Len(pts)

NonEmptyBuckets == Cardinality({i \in 1..Len(clusters) : clusters[i] # <<>>})

C10_BucketStep ==
    (pc = "update" /\ idx <= k) =>
        /\ idx' = idx + 1
        /\ clusters' = clusters
        /\ clusters[idx] # <<>> =>
               /\ Len(new_centroids') = Len(new_centroids) + 1
               /\ SubSeq(new_centroids', 1, Len(new_centroids)) = new_centroids
               /\ IsTruncatedMean(new_centroids'[Len(new_centroids')], clusters[idx])
        /\ clusters[idx] = <<>> =>
               \/ new_centroids' = new_centroids
               \/ /\ Len(new_centroids') = Len(new_centroids) + 1
                  /\ SubSeq(new_centroids', 1, Len(new_centroids)) = new_centroids
                  /\ IsColor(new_centroids'[Len(new_centroids')])

C10_AllBucketsDone ==
    (pc = "update" /\ idx > k) =>
        /\ Len(new_centroids) <= k
        /\ Len(new_centroids) >= NonEmptyBuckets

\* C10: the new centroid sequence is built from the k buckets in bucket
\* order; a non-empty bucket contributes exactly its per-channel truncated
\* mean, an empty bucket one arbitrary color or nothing; the new sequence has
\* at most k entries and at least as many as there are non-empty buckets.
C10_NewCentroidsFromBuckets == [][C10_BucketStep]_vars /\ []C10_AllBucketsDone

\* all buckets done: one mean was truncated and an empty bucket was dropped
C10_Witness ==
    /\ pc = "update" /\ idx > k
    /\ \E i \in 1..k : \E ch \in 1..3 :
           clusters[i] # <<>> /\ SumChannel(clusters[i], ch, 1) % Len(clusters[i]) # 0
    /\ Len(new_centroids) < k

EqualAtEveryIndex(new, old) ==
    /\ Len(new) = Len(old)
    /\ \A i \in 1..Len(new) : new[i] = old[i]

C11_Decision ==
    (pc = "update" /\ idx > k) =>
        IF EqualAtEveryIndex(new_centroids, centroids)
        THEN pc' = "done" /\ outcome' = "palette" /\ centroids' = centroids
        ELSE pc' = "assign" /\ centroids' = new_centroids /\ outcome' = outcome

C11_ReturnOnlyWhenEqual ==
    (pc # "done" /\ pc' = "done") =>
        /\ pc = "update" /\ idx > k
        /\ EqualAtEveryIndex(new_centroids, centroids)

C11_ReturnedIsReproduced ==
    pc = "done" => outcome = "palette" /\ EqualAtEveryIndex(new_centroids, centroids)

\* C11: with all buckets done, k_means returns exactly when the new centroid
\* sequence equals the previous one in length and at every index; otherwise
\* the new sequence replaces the previous one and another iteration runs.
\* The returned sequence is one the last assign-and-update step reproduced.
C11_ReturnsIffUnchanged ==
    [][C11_Decision /\ C11_ReturnOnlyWhenEqual]_vars /\ []C11_ReturnedIsReproduced

\* a return of two centroids after at least two replacements, in a run with
\* no empty bucket
C11_Witness ==
    /\ pc = "done" /\ ~emptySeen
    /\ Cardinality(visited) >= 2
    /\ Len(centroids) = 2

C12_NoError ==
    (points = <<>> /\ k >= 1) => pc # "panic" /\ outcome \in {"none", "palette"}

C12_BucketPolicy ==
    (points = <<>> /\ k >= 1 /\ pc = "update" /\ idx <= k) =>
        /\ clusters[idx] = <<>>
        /\ emptySeen'
        /\ idx' = idx + 1
        /\ \/ new_centroids' = new_centroids
           \/ /\ Len(new_centroids') = Len(new_centroids) + 1
              /\ SubSeq(new_centroids', 1, Len(new_centroids)) = new_centroids
              /\ IsColor(new_centroids'[Len(new_centroids')])

C12_Converges == (points = <<>> /\ k >= 1 /\ pc = "start") ~> (pc = "done")

\* C12: for an empty population and k >= 1, k_means neither fails nor
\* panics, every bucket of every iteration is empty and is either dropped or
\* replaced by one drawn color, and with fair random draws the call
\* eventually converges and returns.
C12_EmptyPopulationConverges ==
    []C12_NoError /\ [][C12_BucketPolicy]_vars /\ C12_Converges

\* an empty population returned one centroid of two: in the last iteration
\* one bucket was dropped and the other drew the color already there
C12_Witness ==
    /\ pc = "done" /\ points = <<>> /\ k >= 2
    /\ Len(centroids) = 1

InUnitInterval(a) == RLe(RInt(0), a) /\ RLe(a, RInt(1))

\* C5: rgb_to_hsv returns a hue in [0, 360), a saturation in [0, 1] and a
\* value in [0, 1] for every 8-bit color.
C5_HsvInRange ==
    h_pc \in {"hsv", "back"} =>
        /\ RLe(RInt(0), h_hsv[1])
        /\ RLt(h_hsv[1], RInt(360))
        /\ InUnitInterval(h_hsv[2])
        /\ InUnitInterval(h_hsv[3])

\* C6: hsv_to_rgb(rgb_to_hsv(r, g, b)) is within 1 of (r, g, b) in every
\* channel.
C6_RoundTripWithinOne ==
    h_pc = "back" => \A ch \in 1..3 : Abs(h_out[ch] - h_rgb[ch]) <= 1

IsLargestMultipleNotAbove(n, c, step) == n % step = 0 /\ n <= c /\ c < n + step

\* C7: the filter maps every pixel, whatever its alpha, to red and green at
\* the largest multiple of 32 not above the input, blue at the largest
\* multiple of 64 not above the input, alpha unchanged; the image keeps its
\* dimensions.
C7_PosterizeTruncates ==
    f_passes >= 1 =>
        /\ Len(f_once) = f_width * f_height
        /\ Len(f_once) = Len(f_orig)
        /\ \A i \in 1..Len(f_orig) :
               /\ IsLargestMultipleNotAbove(f_once[i][1], f_orig[i][1], 32)
               /\ IsLargestMultipleNotAbove(f_once[i][2], f_orig[i][2], 32)
               /\ IsLargestMultipleNotAbove(f_once[i][3], f_orig[i][3], 64)
               /\ f_once[i][4] = f_orig[i][4]

\* a fully transparent pixel and an opaque one have both been changed
C7_Witness ==
    /\ f_passes = 1
    /\ \E i \in 1..Len(f_orig) : f_orig[i][4] = 0 /\ f_once[i] # f_orig[i]
    /\ \E i \in 1..Len(f_orig) : f_orig[i][4] = 255 /\ f_once[i] # f_orig[i]

\* C8: the filter applied twice gives the image the filter applied once gives.
C8_PosterizeIdempotent ==
    f_passes >= 2 => f_image = f_once

\* a second pass over an image the first pass changed
C8_Witness ==
    /\ f_passes = 2
    /\ f_once # f_orig

====
